---- MODULE Spec2Model ----
(***************************************************************************)
(* Model of based_utils.calx.interpol: linear and cyclic interpolation     *)
(* bounds, their free-function wrappers, and the frange / fractions        *)
(* generators; of calx.utils (mods, compare); and of cli.animation.animate  *)
(* and cli.exec.killed_by_errors.                                          *)
(*                                                                         *)
(* Python floats are modelled as exact rationals <<numerator, denominator>>*)
(* in lowest terms with a positive denominator; None is the empty tuple.   *)
(***************************************************************************)
EXTENDS Integers, Sequences, FiniteSets, TLC

VARIABLES
    bounds,   \* the bounds object the last interpolation call constructed
    call,     \* the last interpolation call: function and arguments
    ret,      \* what that call produced
    pc,       \* where the generator is suspended
    args,     \* the arguments frange was called with
    locals,   \* frange's locals s, e and n
    out,      \* the values the generator has yielded, in order
    stdout    \* what has been written to sys.stdout, in order

vars == << bounds, call, ret, pc, args, locals, out, stdout >>

\* ------------------------------------------------------- bounds of the model
\* Input numbers are the multiples k/Den with |k| <= MaxNum.
Den == 2
MaxNum == 4
\* Periods are the multiples k/Den with -1 <= k <= MaxPer.
MaxPer == 4
\* Interpolation positions f are also the multiples k/FracDen in [0, 1].
FracDen == 4
\* frange steps are the multiples k/Den with |k| <= MaxStep.
MaxStep == 2
\* fractions(n) is called with 0 <= n <= MaxN.
MaxN == 3
\* compare and mods are called with integers i, |i| <= MaxInt, and mods with
\* shifts of at most MaxShift either way.
MaxInt == 5
MaxShift == 2
\* animate is given at most MaxItems items of at most MaxLines lines each,
\* and only_every_nth from -1 to MaxNth.
MaxItems == 3
MaxLines == 2
MaxNth == 2
\* A generator is resumed only while it has yielded fewer than MaxYield values.
MaxYield == 12

\* ------------------------------------------------------------- rationals
RECURSIVE GCD(_, _)
GCD(a, b) == IF b = 0 THEN a ELSE GCD(b, a % b)

IAbs(i) == IF i < 0 THEN 0 - i ELSE i

Norm(n, d) ==
    LET g == GCD(IAbs(n), IAbs(d))
        sg == IF d < 0 THEN 0 - 1 ELSE 1
    IN  << (sg * n) \div g, (sg * d) \div g >>

Num(i) == << i, 1 >>

None == << >>

Add(a, b) == Norm(a[1] * b[2] + b[1] * a[2], a[2] * b[2])

Sub(a, b) == Norm(a[1] * b[2] - b[1] * a[2], a[2] * b[2])

Mul(a, b) == Norm(a[1] * b[1], a[2] * b[2])

\* True division; the caller tests the divisor (ZeroDivisionError) first.
TrueDiv(a, b) == Norm(a[1] * b[2], a[2] * b[1])

Lt(a, b) == a[1] * b[2] < b[1] * a[2]

Le(a, b) == a[1] * b[2] <= b[1] * a[2]

abs(a) == << IAbs(a[1]), a[2] >>

min(a, b) == IF Lt(b, a) THEN b ELSE a

max(a, b) == IF Lt(a, b) THEN b ELSE a

IsZero(a) == a[1] = 0

\* floor(a / p) for p # 0.
FloorDiv(a, p) ==
    LET q == TrueDiv(a, p) IN q[1] \div q[2]

\* Python's a % p for p # 0: a - p * floor(a / p), which has the sign of p.
Mod(a, p) == Sub(a, Mul(p, Num(FloorDiv(a, p))))

NoLocals == [s |-> None, e |-> None, n |-> None]

\* ------------------------------------------------------------ outcomes
\* What a call produces: a returned value, or the exception that escapes.
Return(v) == [exc |-> "", val |-> v]

Raise(name) == [exc |-> name, val |-> None]

Returned(r) == r.exc = ""

\* ---------------------------------------------------------------- trim
trim_Swapped(n, lower, upper) == max(min(lower, n), upper)

trim(n, lower, upper) == min(max(lower, n), upper)

\* ---------------------------------------------------- InterpolationBounds
NoBounds == [cls |-> "", _begin |-> None, _end |-> None, _period |-> None]

InterpolationBounds(begin, end) ==
    [cls |-> "InterpolationBounds", _begin |-> begin, _end |-> end,
     _period |-> None]

_span(self) == Sub(self._end, self._begin)

Linear_interpolate_FromEnd(self, f) ==
    Return(Add(self._end, Mul(_span(self), f)))

Linear_interpolate(self, f) ==
    Return(Add(self._begin, Mul(_span(self), f)))

Linear_inverse_interpolate_NoExcept(self, n, inside) ==
    IF IsZero(_span(self))
    THEN Raise("ZeroDivisionError")
    ELSE LET f == TrueDiv(Sub(n, self._begin), _span(self))
         IN  Return(IF inside THEN trim(f, Num(0), Num(1)) ELSE f)

Linear_inverse_interpolate(self, n, inside) ==
    IF IsZero(_span(self))
    THEN Return(Num(0))
    ELSE LET f == TrueDiv(Sub(n, self._begin), _span(self))
         IN  Return(IF inside THEN trim(f, Num(0), Num(1)) ELSE f)

\* ---------------------------------------------- CyclicInterpolationBounds
FULL_CIRCLE == 360

\* The phase shift of begin over one whole period.
PhaseShift_Never(begin, end, period) == begin

PhaseShift_WrongWay(begin, end, period) ==
    IF Lt(TrueDiv(period, Num(2)), abs(Sub(end, begin)))
    THEN IF Lt(begin, end) THEN Sub(begin, period) ELSE Add(begin, period)
    ELSE begin

PhaseShift(begin, end, period) ==
    IF Lt(TrueDiv(period, Num(2)), abs(Sub(end, begin)))
    THEN IF Lt(begin, end) THEN Add(begin, period) ELSE Sub(begin, period)
    ELSE begin

\* The constructor: the object built, or the exception of begin % 0.
CyclicInterpolationBounds(begin0, end0, period0) ==
    LET end1 == IF end0 = None THEN Num(FULL_CIRCLE) ELSE end0
        period == IF period0 = None THEN Num(FULL_CIRCLE) ELSE period0
    IN  IF IsZero(period)
        THEN [exc |-> "ZeroDivisionError", obj |-> NoBounds]
        ELSE LET begin == Mod(begin0, period)
                 end == Mod(end1, period)
             IN  [exc |-> "",
                  obj |-> [cls |-> "CyclicInterpolationBounds",
                           _begin |-> PhaseShift(begin, end, period),
                           _end |-> end,
                           _period |-> period]]

Cyclic_interpolate(self, f) ==
    Return(Mod(Linear_interpolate(self, f).val, self._period))

Cyclic_inverse_interpolate(self, n, inside) ==
    Linear_inverse_interpolate(self, Mod(n, self._period), inside)

\* ------------------------------------------------------ the free functions
interpolate(f, begin, end) ==
    LET b == InterpolationBounds(begin, end)
    IN  [obj |-> b, ret |-> Linear_interpolate(b, f)]

inverse_interpolate(x, begin, end, inside) ==
    LET b == InterpolationBounds(begin, end)
    IN  [obj |-> b, ret |-> Linear_inverse_interpolate(b, x, inside)]

interpolate_cyclic(f, begin, end, period) ==
    LET c == CyclicInterpolationBounds(begin, end, period)
    IN  IF c.exc # ""
        THEN [obj |-> NoBounds, ret |-> Raise(c.exc)]
        ELSE [obj |-> c.obj, ret |-> Cyclic_interpolate(c.obj, f)]

inverse_interpolate_cyclic(x, begin, end, period, inside) ==
    LET c == CyclicInterpolationBounds(begin, end, period)
    IN  IF c.exc # ""
        THEN [obj |-> NoBounds, ret |-> Raise(c.exc)]
        ELSE [obj |-> c.obj, ret |-> Cyclic_inverse_interpolate(c.obj, x, inside)]

interpolate_angle(f, angle_1, angle_2) ==
    interpolate_cyclic(f, angle_1, angle_2, Num(FULL_CIRCLE))

inverse_interpolate_angle(x, angle_1, angle_2, inside) ==
    inverse_interpolate_cyclic(x, angle_1, angle_2, Num(FULL_CIRCLE), inside)

\* ------------------------------------------------------------------ inputs
Nums == { Norm(k, Den) : k \in (0 - MaxNum)..MaxNum }

Positions == Nums \cup { Norm(k, FracDen) : k \in 0..FracDen }

\* The two headings of the 350 -> 10 degree example.
Degrees == { Num(10), Num(350) }

Periods == { Norm(k, Den) : k \in (0 - 1)..MaxPer } \cup { Num(FULL_CIRCLE) }

NoCall ==
    [fn |-> "", x |-> None, begin |-> None, end |-> None, period |-> None,
     inside |-> TRUE, of |-> None]

NoRet == Raise("")

\* The functions are pure, so a run makes one call from the idle state, and
\* may follow a forward call by the inverse call on the value it returned.
Idle == call.fn = ""

\* The arguments of an inverse call: any number when idle, or the value the
\* matching forward call just returned, with that call's bounds (a round trip).
InverseArgs(forward, Begins, Ends, Pers) ==
    IF Idle
    THEN { [x |-> x, begin |-> b, end |-> en, period |-> p, of |-> None] :
             x \in Nums, b \in Begins, en \in Ends, p \in Pers }
    ELSE IF call.fn = forward /\ Returned(ret)
    THEN { [x |-> ret.val, begin |-> call.begin, end |-> call.end,
            period |-> call.period, of |-> call.x] }
    ELSE { }

Init ==
    /\ bounds = NoBounds
    /\ call = NoCall
    /\ ret = NoRet
    /\ pc = ""
    /\ args = None
    /\ locals = NoLocals
    /\ out = << >>
    /\ stdout = << >>

genvars == << pc, args, locals, out, stdout >>

Record(fn, x, begin, end, period, inside, of, result) ==
    /\ call' = [fn |-> fn, x |-> x, begin |-> begin, end |-> end,
                period |-> period, inside |-> inside, of |-> of]
    /\ bounds' = result.obj
    /\ ret' = result.ret
    /\ UNCHANGED genvars

CallInterpolate ==
    /\ Idle
    /\ \E f \in Positions, begin \in Nums, end \in Nums :
        Record("interpolate", f, begin, end, None, TRUE, None,
               interpolate(f, begin, end))

CallInverseInterpolate ==
    \E a \in InverseArgs("interpolate", Nums, Nums, {None}),
       inside \in BOOLEAN :
        Record("inverse_interpolate", a.x, a.begin, a.end, None, inside, a.of,
               inverse_interpolate(a.x, a.begin, a.end, inside))

CallInterpolateCyclic ==
    /\ Idle
    /\ \E f \in Positions, begin \in Nums \cup Degrees,
       end \in Nums \cup Degrees \cup {None}, period \in Periods \cup {None} :
        Record("interpolate_cyclic", f, begin, end, period, TRUE, None,
               interpolate_cyclic(f, begin, end, period))

CallInverseInterpolateCyclic ==
    \E a \in InverseArgs("interpolate_cyclic", Nums, Nums \cup {None},
                         Periods \cup {None}),
       inside \in BOOLEAN :
        Record("inverse_interpolate_cyclic", a.x, a.begin, a.end, a.period,
               inside, a.of,
               inverse_interpolate_cyclic(a.x, a.begin, a.end, a.period, inside))

CallInterpolateAngle ==
    /\ Idle
    /\ \E f \in Positions, angle_1 \in Nums \cup Degrees,
       angle_2 \in Nums \cup Degrees \cup {None} :
        Record("interpolate_angle", f, angle_1, angle_2, None, TRUE, None,
               interpolate_angle(f, angle_1, angle_2))

CallInverseInterpolateAngle ==
    \E a \in InverseArgs("interpolate_angle", Nums \cup Degrees,
                         Degrees \cup {None}, {None}),
       inside \in BOOLEAN :
        Record("inverse_interpolate_angle", a.x, a.begin, a.end, None,
               inside, a.of,
               inverse_interpolate_angle(a.x, a.begin, a.end, inside))

Next ==
    \/ CallInterpolate
    \/ CallInverseInterpolate
    \/ CallInterpolateCyclic
    \/ CallInverseInterpolateCyclic
    \/ CallInterpolateAngle
    \/ CallInverseInterpolateAngle

Spec == Init /\ [][Next]_vars

\* ================================================================ frange
\* math.isclose's default rel_tol is 1e-09 (abs_tol 0.0).
REL_TOL_INV == 1000000000

\* math.isclose(a, b): |a - b| <= rel_tol * max(|a|, |b|). The quotient
\* r = |a - b| / max(|a|, |b|) is taken with its common factors cancelled
\* first, and r <= 1 / 10^9 is tested as r[1] <= r[2] \div 10^9, so that no
\* product leaves the machine integers.
isclose(a, b) ==
    \/ a = b
    \/ LET diff == abs(Sub(a, b))
           m == max(abs(a), abs(b))
           gn == GCD(diff[1], m[1])
           gd == GCD(diff[2], m[2])
           r == << (diff[1] \div gn) * (m[2] \div gd),
                   (diff[2] \div gd) * (m[1] \div gn) >>
       IN  r[1] <= r[2] \div REL_TOL_INV

\* Python's "x or d" for a number or None: d when x is None or zero.
Or(x, d) == IF x = None \/ IsZero(x) THEN d ELSE x

\* Calling frange runs none of its body: it returns a generator over these.
frange(step, start_or_end, end, inclusive) ==
    [step |-> step, start_or_end |-> start_or_end, end |-> end,
     inclusive |-> inclusive]

fractions_OffByOne(k, inclusive) ==
    frange(TrueDiv(Num(1), Num(k + 2)), None, None, inclusive)

fractions(k, inclusive) ==
    frange(TrueDiv(Num(1), Num(k + 1)), None, None, inclusive)

\* Lines 171-174: the range [s, e] the arguments stand for.
Resolve(a) ==
    IF a.end = None
    THEN [s |-> Num(0), e |-> Or(a.start_or_end, Num(1)), n |-> None]
    ELSE [s |-> Or(a.start_or_end, Num(0)), e |-> a.end, n |-> None]

\* A suspension or end of the generator: where, with which locals, and the
\* value handed to the consumer (none when it ends).
Suspend(where, l, y) == [pc |-> where, locals |-> l, yielded |-> y]

\* Lines 179-183 from the loop test on, with n already set.
Loop(a, l) ==
    IF Lt(l.n, l.e) /\ ~isclose(l.n, l.e)
    THEN Suspend("yield_n", l, << l.n >>)
    ELSE IF a.inclusive
    THEN Suspend("yield_e", l, << l.e >>)
    ELSE Suspend("StopIteration", l, << >>)

\* Line 178, then the loop.
EnterLoop(a, l) == Loop(a, [l EXCEPT !.n = Add(l.s, a.step)])

Start_YieldBeforeCheck(a) ==
    LET l == Resolve(a)
    IN  IF a.inclusive THEN Suspend("yield_s", l, << l.s >>)
        ELSE IF IsZero(a.step) THEN Suspend("ValueError", NoLocals, << >>)
        ELSE EnterLoop(a, l)

\* The first next(): lines 167-177, and on into the loop when not inclusive.
Start(a) ==
    IF IsZero(a.step)
    THEN Suspend("ValueError", NoLocals, << >>)
    ELSE LET l == Resolve(a)
         IN  IF a.inclusive
             THEN Suspend("yield_s", l, << l.s >>)
             ELSE EnterLoop(a, l)

\* next() after "yield n": line 181, then the loop test.
Advance(a, l) == Loop(a, [l EXCEPT !.n = Add(l.n, a.step)])

Steps == { Norm(k, Den) : k \in (0 - MaxStep)..MaxStep }

intvars == << bounds, ret, stdout >>

Create(fn, x, generator) ==
    /\ pc = ""
    /\ call' = [NoCall EXCEPT !.fn = fn, !.x = x]
    /\ args' = generator
    /\ pc' = "created"
    /\ UNCHANGED << locals, out, intvars >>

\* An end just above 1, within isclose's tolerance of it.
NearOne == Norm(REL_TOL_INV + 1, REL_TOL_INV)

FrangeCalls ==
    { frange(step, start_or_end, end, inclusive) :
        step \in Steps, start_or_end \in Nums \cup {None},
        end \in Nums \cup {None}, inclusive \in BOOLEAN }
    \cup { frange(Num(1), Num(0), NearOne, inclusive) : inclusive \in BOOLEAN }

CallFrange ==
    \E generator \in FrangeCalls : Create("frange", None, generator)

CallFractions ==
    \E k \in 0..MaxN, inclusive \in BOOLEAN :
        Create("fractions", Num(k), fractions(k, inclusive))

\* One next() on the generator: it runs to its next suspension or end.
Resume(from, r) ==
    /\ pc = from
    /\ Len(out) < MaxYield
    /\ pc' = r.pc
    /\ locals' = r.locals
    /\ out' = out \o r.yielded
    /\ UNCHANGED << args, call, intvars >>

NextFromCreated == Resume("created", Start(args))

NextAfterYieldS == Resume("yield_s", EnterLoop(args, locals))

NextAfterYieldN == Resume("yield_n", Advance(args, locals))

NextAfterYieldE == Resume("yield_e", Suspend("StopIteration", locals, << >>))

NextFrange ==
    \/ CallFrange
    \/ CallFractions
    \/ NextFromCreated
    \/ NextAfterYieldS
    \/ NextAfterYieldN
    \/ NextAfterYieldE

SpecFrange == Init /\ [][NextFrange]_vars

\* ------------------------------------------------------------ properties
Half == Norm(1, 2)

InUnit(f) == Le(Num(0), f) /\ Le(f, Num(1))

\* The distance between x and y around a circle of circumference P > 0.
CircDist(x, y, P) == min(Mod(Sub(x, y), P), Mod(Sub(y, x), P))

Positive(x) == x # None /\ Lt(Num(0), x)

\* C1: once a CyclicInterpolationBounds with period > 0 is constructed, its
\* stored begin and end satisfy |end - begin| <= period / 2.
C1_MinorArcAfterConstruction ==
    (bounds.cls = "CyclicInterpolationBounds" /\ Positive(bounds._period))
    => Le(abs(Sub(bounds._end, bounds._begin)),
          TrueDiv(bounds._period, Num(2)))

\* C1 witness: a construction that shifted begin out of [0, period).
C1_Witness ==
    /\ bounds.cls = "CyclicInterpolationBounds"
    /\ Positive(bounds._period)
    /\ call.period # None
    /\ Lt(bounds._begin, Num(0))
    /\ bounds._end # bounds._begin

\* C2: inverse_interpolate(interpolate(f, begin=a, end=b), begin=a, end=b)
\* returns f, for a # b and f in [0, 1], with inside=True.
C2_LinearRoundTrip ==
    (/\ call.fn = "inverse_interpolate"
     /\ call.of # None
     /\ call.inside
     /\ call.begin # call.end
     /\ InUnit(call.of))
    => ret = Return(call.of)

\* C2 witness: a round trip over a descending range at an interior f.
C2_Witness ==
    /\ call.fn = "inverse_interpolate"
    /\ call.of = Half
    /\ call.inside
    /\ Lt(call.end, call.begin)
    /\ ret = Return(Half)

\* The zero-span inverse calls: begin = end (linear), or begin and end
\* congruent modulo a period > 0 (cyclic).
ZeroSpanInverse ==
    \/ call.fn = "inverse_interpolate" /\ call.begin = call.end
    \/ /\ call.fn = "inverse_interpolate_cyclic"
       /\ call.end # None
       /\ Positive(call.period)
       /\ Mod(call.begin, call.period) = Mod(call.end, call.period)

\* C3: inverse_interpolate on a zero-span range raises nothing and returns 0,
\* for every n and for inside true and false.
C3_ZeroSpanReturnsZero ==
    ZeroSpanInverse => ret = Return(Num(0))

\* C3 witness: a cyclic inverse, unclamped, whose begin and end differ but
\* are congruent modulo the period, queried away from begin.
C3_Witness ==
    /\ ZeroSpanInverse
    /\ call.fn = "inverse_interpolate_cyclic"
    /\ call.begin # call.end
    /\ ~call.inside
    /\ Mod(call.x, call.period) # Mod(call.begin, call.period)
    /\ ret = Return(Num(0))

\* The fraction (n - begin) / span of a linear inverse call with span # 0.
CallFraction ==
    TrueDiv(Sub(call.x, call.begin), Sub(call.end, call.begin))

\* C4: for span # 0, inverse_interpolate(n, inside=True) is the fraction
\* (n - begin) / span clamped into [0, 1], and inside=False is that fraction.
C4_InverseClampsOnlyInside ==
    (call.fn = "inverse_interpolate" /\ call.begin # call.end)
    => /\ Returned(ret)
       /\ ~call.inside => ret.val = CallFraction
       /\ call.inside =>
            ret.val = IF Lt(CallFraction, Num(0)) THEN Num(0)
                      ELSE IF Lt(Num(1), CallFraction) THEN Num(1)
                      ELSE CallFraction

\* C4 witness: a fraction above 1 that inside=True clamped to 1.
C4_Witness ==
    /\ call.fn = "inverse_interpolate"
    /\ call.begin # call.end
    /\ call.inside
    /\ Lt(Num(1), CallFraction)
    /\ ret = Return(Num(1))

\* C5: for period P > 0 and f in [0, 1], interpolate_cyclic(f, begin, end, P)
\* lies in [0, P), at circular distance f * d from begin and (1 - f) * d
\* from end, d being the circular distance of begin and end; and
\* interpolate_cyclic(0.5, begin=350, end=10, period=360) is 0.
C5_CyclicSweepsMinorArc ==
    (/\ call.fn = "interpolate_cyclic"
     /\ call.end # None
     /\ Positive(call.period)
     /\ InUnit(call.x))
    => LET P == call.period
           d == CircDist(call.begin, call.end, P)
       IN  /\ Returned(ret)
           /\ Le(Num(0), ret.val) /\ Lt(ret.val, P)
           /\ CircDist(ret.val, call.begin, P) = Mul(call.x, d)
           /\ CircDist(ret.val, call.end, P) = Mul(Sub(Num(1), call.x), d)
           /\ (call.begin = Num(350) /\ call.end = Num(10)
               /\ P = Num(360) /\ call.x = Half) => ret.val = Num(0)

\* C5 witness: the midpoint of the arc from 350 to 10 degrees is 0.
C5_Witness ==
    /\ call.fn = "interpolate_cyclic"
    /\ call.begin = Num(350) /\ call.end = Num(10)
    /\ call.period = Num(360) /\ call.x = Half
    /\ bounds._begin = Num(0 - 10)
    /\ ret = Return(Num(0))

\* ------------------------------------------------------ frange properties
Started == pc \notin { "", "created" }

Ended == pc \in { "StopIteration", "ValueError" }

\* C6: a frange generator whose step is 0 fails with ValueError on its first
\* next(), whatever start_or_end, end and inclusive are, having yielded
\* nothing.
C6_ZeroStepRaisesFirst ==
    (call.fn = "frange" /\ IsZero(args.step) /\ Started)
    => pc = "ValueError" /\ out = << >>

\* C6 witness: frange(0, start, end, inclusive=True) has raised.
C6_Witness ==
    /\ call.fn = "frange"
    /\ IsZero(args.step)
    /\ args.inclusive
    /\ args.start_or_end # None /\ args.end # None
    /\ pc = "ValueError"
    /\ out = << >>

\* C7: frange runs from 0 to start_or_end when end is omitted (to 1 only
\* when start_or_end is not given), and from start_or_end to end when end is
\* given (from 0 only when start_or_end is not given), for every passed
\* start_or_end, an explicit 0 included.
C7_ParameterResolution ==
    (call.fn = "frange" /\ Started /\ pc # "ValueError")
    => IF args.end = None
       THEN /\ locals.s = Num(0)
            /\ locals.e = IF args.start_or_end = None THEN Num(1)
                           ELSE args.start_or_end
       ELSE /\ locals.s = IF args.start_or_end = None THEN Num(0)
                           ELSE args.start_or_end
            /\ locals.e = args.end

\* C8: every resumption inside the loop brings n closer to e by |step|, so
\* that the generator ends after finitely many values, for every nonzero
\* step and every start and end.
C8_FiniteSequence ==
    [][(pc = "yield_n" /\ pc' = "yield_n")
       => Le(Add(Sub(locals'.e, locals'.n), abs(args.step)),
             Sub(locals.e, locals.n))]_vars

\* The value s + k * step.
Nth(k) == Add(locals.s, Mul(Num(k), args.step))

StrictlyBetween(v) == Lt(locals.s, v) /\ Lt(v, locals.e)

\* C9: with inclusive=False, the i-th value frange yields is s + i * step
\* and lies strictly between s and e, and when the generator ends the next
\* such value is not strictly between s and e: none was skipped.
C9_OnlyStrictlyBetween ==
    (call.fn = "frange" /\ ~args.inclusive /\ Started /\ pc # "ValueError")
    => /\ \A i \in 1..Len(out) :
            out[i] = Nth(i) /\ StrictlyBetween(out[i])
       /\ pc = "StopIteration" => ~StrictlyBetween(Nth(Len(out) + 1))

\* The values fractions(k, inclusive) is to yield.
ExpectedFractions(k, inclusive) ==
    (IF inclusive THEN << Num(0) >> ELSE << >>)
    \o [i \in 1..k |-> Norm(i, k + 1)]
    \o (IF inclusive THEN << Num(1) >> ELSE << >>)

C13_CyclicRoundTrip ==
    (/\ call.fn = "inverse_interpolate_cyclic"
     /\ call.of # None
     /\ call.inside
     /\ call.end # None
     /\ Positive(call.period)
     /\ Mod(call.begin, call.period) # Mod(call.end, call.period)
     /\ InUnit(call.of))
    => ret = Return(call.of)

\* ================================================================ calx.utils
\* Python's int floor division and modulo, b # 0: the quotient is rounded
\* down and the remainder has the sign of b.
IFloorDiv(a, b) == IF b > 0 THEN a \div b ELSE (0 - a) \div (0 - b)

IMod(a, b) == a - b * IFloorDiv(a, b)

\* A bool used as an int.
BoolInt(b) == IF b THEN 1 ELSE 0

mods_NoShiftBack(x, y, shift) ==
    IF y = 0 THEN Raise("ZeroDivisionError")
    ELSE Return(IMod(x - shift, y))

mods(x, y, shift) ==
    IF y = 0 THEN Raise("ZeroDivisionError")
    ELSE Return(IMod(x - shift, y) + shift)

compare(v1, v2) == Return(BoolInt(v1 < v2) - BoolInt(v1 > v2))

Ints == (0 - MaxInt)..MaxInt

Shifts == (0 - MaxShift)..MaxShift

utilvars == << bounds, pc, args, locals, out, stdout >>

CallCompare ==
    /\ Idle
    /\ \E v1 \in Ints, v2 \in Ints :
        /\ call' = [fn |-> "compare", v1 |-> v1, v2 |-> v2]
        /\ ret' = compare(v1, v2)
    /\ UNCHANGED utilvars

CallMods ==
    /\ Idle
    /\ \E x \in Ints, y \in Ints, shift \in Shifts :
        /\ call' = [fn |-> "mods", x |-> x, y |-> y, shift |-> shift]
        /\ ret' = mods(x, y, shift)
    /\ UNCHANGED utilvars

NextUtils ==
    \/ CallCompare
    \/ CallMods

SpecUtils == Init /\ [][NextUtils]_vars

\* C11: compare(v1, v2) is -1 when v1 < v2, 0 when v1 = v2 and 1 when
\* v1 > v2 (compare(3, 5) = -1, compare(5, 3) = 1, compare(4, 4) = 0).
C11_CompareThreeWay ==
    call.fn = "compare"
    => ret = Return(IF call.v1 < call.v2 THEN 0 - 1
                    ELSE IF call.v1 = call.v2 THEN 0 ELSE 1)

\* The window property of mods for y > 0: the result is congruent to x
\* modulo y and lies in [shift, shift + y).
ModsInWindow ==
    (call.fn = "mods" /\ call.y > 0)
    => /\ Returned(ret)
       /\ call.shift <= ret.val /\ ret.val < call.shift + call.y
       /\ (ret.val - call.x) % call.y = 0

IsModsCall(x, y, shift) ==
    call.fn = "mods" /\ call.x = x /\ call.y = y /\ call.shift = shift

\* C12 as stated: the window property, mods(-1, 5) = 4 and
\* mods(5, 5, shift=1) = 1.
C12_ModsAsStated ==
    /\ ModsInWindow
    /\ IsModsCall(0 - 1, 5, 0) => ret = Return(4)
    /\ IsModsCall(5, 5, 1) => ret = Return(1)

\* C12 amended: for y > 0, mods(x, y, shift) is the value congruent to x
\* modulo y in [shift, shift + y); mods(-1, 5) = 4 and
\* mods(5, 5, shift=1) = 5.
C12_ModsWindow ==
    /\ ModsInWindow
    /\ IsModsCall(0 - 1, 5, 0) => ret = Return(4)
    /\ IsModsCall(5, 5, 1) => ret = Return(5)

\* C12 witness: mods(5, 5, shift=1) returned 5, the top of [1, 6).
C12_Witness == IsModsCall(5, 5, 1) /\ ret = Return(5)

\* ============================================================= cli.animation
\* What one sys.stdout.write(LINE_UP + LINE_CLEAR) puts on the stream.
LINE_UP_CLEAR == << 0, 0 >>

\* do_and_count(lines, action): action on every line, and how many there were.
do_and_count(lines) == [written |-> lines, count |-> Len(lines)]

\* refresh_lines: every line is written with its newline; the count returned.
refresh_lines(lines) == do_and_count(lines)

\* clear_lines(amount): what it writes.
clear_lines(amount) == [k \in 1..amount |-> LINE_UP_CLEAR]

\* fmt(item) with format_item None: the item is its own lines. Line k of the
\* item called id is the string << id, k >>.
fmt(item) == [k \in 1..item.lines |-> << item.id, k >>]

DEFAULT_FPS == 60

\* A suspension or end of animate: where, with which locals, the item handed
\* to the consumer (none when it ends) and the stream so far.
AnimateAt(where, l, y, stream) ==
    [pc |-> where, locals |-> l, yielded |-> y, stdout |-> stream]

\* Lines 53-54: the loop is over.
AnimateFinish(a, l, stream) ==
    AnimateAt("StopIteration", l, << >>,
              IF a.keep_last THEN stream
              ELSE stream \o clear_lines(l.lines_written))

\* enumerate(items) moves on: the next "yield item", or the end of the loop.
AnimateNextItem(a, l, stream) ==
    IF l.i + 1 < Len(a.items)
    THEN AnimateAt("yield_item", [l EXCEPT !.i = l.i + 1],
                   << a.items[l.i + 2] >>, stream)
    ELSE AnimateFinish(a, l, stream)

\* The first next(): line 43 and the first "yield item", if there is an item.
AnimateStart(a) ==
    LET l == [i |-> 0 - 1, lines_written |-> 0]
    IN  AnimateNextItem(a, l, << >>)

AnimateAfterYield_NoClear(a, l, stream) ==
    IF a.only_every_nth = 0
    THEN AnimateAt("ZeroDivisionError", l, << >>, stream)
    ELSE IF IMod(l.i, a.only_every_nth) # 0
    THEN AnimateNextItem(a, l, stream)
    ELSE LET r == refresh_lines(fmt(a.items[l.i + 1]))
             shown == stream \o r.written
             l2 == [l EXCEPT !.lines_written = r.count]
         IN  IF a.fps = 0 THEN AnimateAt("ZeroDivisionError", l2, << >>, shown)
             ELSE IF a.fps < 0 THEN AnimateAt("ValueError", l2, << >>, shown)
             ELSE AnimateNextItem(a, l2, shown)

\* next() after "yield item": lines 46-51 for item i, then the next item.
AnimateAfterYield(a, l, stream) ==
    IF a.only_every_nth = 0
    THEN AnimateAt("ZeroDivisionError", l, << >>, stream)
    ELSE IF IMod(l.i, a.only_every_nth) # 0
    THEN AnimateNextItem(a, l, stream)
    ELSE LET r == refresh_lines(fmt(a.items[l.i + 1]))
             shown == (stream \o clear_lines(l.lines_written)) \o r.written
             l2 == [l EXCEPT !.lines_written = r.count]
         IN  IF a.fps = 0 THEN AnimateAt("ZeroDivisionError", l2, << >>, shown)
             ELSE IF a.fps < 0 THEN AnimateAt("ValueError", l2, << >>, shown)
             ELSE AnimateNextItem(a, l2, shown)

\* The item lists: item j is called j and has 0..MaxLines lines.
ItemLists ==
    UNION { { [j \in 1..len |-> [id |-> j, lines |-> c[j]]] :
                c \in [1..len -> 0..MaxLines] } : len \in 0..MaxItems }

Nths == (0 - 1)..MaxNth

FpsValues == { 0 - 1, 0, DEFAULT_FPS }

CallAnimate ==
    /\ pc = ""
    /\ \E items \in ItemLists, keep_last \in BOOLEAN,
          only_every_nth \in Nths, fps \in FpsValues :
        args' = [items |-> items, keep_last |-> keep_last,
                 only_every_nth |-> only_every_nth, fps |-> fps]
    /\ call' = [fn |-> "animate"]
    /\ pc' = "created"
    /\ UNCHANGED << locals, out, stdout, bounds, ret >>

\* One next() on the animate generator.
ResumeAnimate(from, r) ==
    /\ pc = from
    /\ pc' = r.pc
    /\ locals' = r.locals
    /\ out' = out \o r.yielded
    /\ stdout' = r.stdout
    /\ UNCHANGED << args, call, bounds, ret >>

AnimateNextFromCreated == ResumeAnimate("created", AnimateStart(args))

AnimateNextAfterYield ==
    ResumeAnimate("yield_item", AnimateAfterYield(args, locals, stdout))

NextAnimate ==
    \/ CallAnimate
    \/ AnimateNextFromCreated
    \/ AnimateNextAfterYield

SpecAnimate == Init /\ [][NextAnimate]_vars

\* ------------------------------------------------------ animate properties
\* The terminal after a stream: the lines it shows, and how many times a
\* LINE_UP + LINE_CLEAR found no line of the stream left to clear.
RECURSIVE Terminal(_)
Terminal(stream) ==
    IF stream = << >>
    THEN [lines |-> << >>, over |-> 0]
    ELSE LET t == Terminal(SubSeq(stream, 1, Len(stream) - 1))
             w == stream[Len(stream)]
         IN  IF w # LINE_UP_CLEAR
             THEN [t EXCEPT !.lines = Append(@, w)]
             ELSE IF t.lines = << >>
             THEN [t EXCEPT !.over = @ + 1]
             ELSE [t EXCEPT !.lines = SubSeq(@, 1, Len(@) - 1)]

\* Index i (from 0) is a multiple of nth.
IsMultiple(i, nth) == IF nth = 0 THEN i = 0 ELSE i % IAbs(nth) = 0

\* Among the first k items, the last one to render (0: none).
LastRendered(nth, k) ==
    LET R == { j \in 1..k : IsMultiple(j - 1, nth) }
    IN  IF R = { } THEN 0 ELSE CHOOSE j \in R : \A m \in R : m <= j

FrameLines(items, j) == IF j = 0 THEN 0 ELSE items[j].lines

\* The stream the claim describes once the first k items are dealt with:
\* each item at a multiple of nth is written after as many clears as the
\* frame rendered before it had lines.
RECURSIVE ExpectedStream(_, _, _)
ExpectedStream(items, nth, k) ==
    IF k = 0 THEN << >>
    ELSE LET before == ExpectedStream(items, nth, k - 1)
         IN  IF IsMultiple(k - 1, nth)
             THEN (before
                   \o [c \in 1..FrameLines(items, LastRendered(nth, k - 1))
                          |-> LINE_UP_CLEAR])
                  \o [c \in 1..items[k].lines |-> << k, c >>]
             ELSE before

AnimateOver == pc \in { "StopIteration", "ZeroDivisionError", "ValueError" }

\* How many items animate has dealt with (rendered or skipped).
Processed ==
    IF pc = "yield_item" THEN locals.i
    ELSE IF pc = "StopIteration" THEN Len(args.items)
    ELSE Len(out)

\* What C14 says of an animate generator that has been started.
AnimateScreenConsistent ==
    LET last == LastRendered(args.only_every_nth, Processed)
        frames == ExpectedStream(args.items, args.only_every_nth, Processed)
        term == Terminal(stdout)
    IN  /\ out = SubSeq(args.items, 1, Len(out))
        /\ AnimateOver => out = args.items
        /\ term.over = 0
        /\ IF pc = "StopIteration" /\ ~args.keep_last
           THEN /\ stdout = frames
                           \o [c \in 1..FrameLines(args.items, last)
                                  |-> LINE_UP_CLEAR]
                /\ term.lines = << >>
           ELSE /\ stdout = frames
                /\ term.lines = IF last = 0 THEN << >>
                                 ELSE fmt(args.items[last])

Str(text) == << text >>

\* str(a) of a str argument: its text.
str(a) == a[1]

\* The classes of the exceptions, each with its base class.
ExcBase ==
    [BaseException |-> "", SystemExit |-> "BaseException",
     KeyboardInterrupt |-> "BaseException", Exception |-> "BaseException",
     FatalError |-> "SystemExit", LookupError |-> "Exception",
     ValueError |-> "Exception", KeyError |-> "LookupError"]

RECURSIVE issubclass(_, _)
issubclass(cls, base) ==
    \/ cls = base
    \/ ExcBase[cls] # "" /\ issubclass(ExcBase[cls], base)

\* "except classes as exc" catches the raised outcome exc.
Except(exc, classes) == \E base \in classes : issubclass(exc.exc, base)

\* An exception instance: its class and its args.
RaiseExc(cls, a) == [exc |-> cls, val |-> a]

\* sep.join(texts)
RECURSIVE join(_, _)
join(sep, texts) ==
    IF texts = << >> THEN ""
    ELSE IF Len(texts) = 1 THEN texts[1]
    ELSE (texts[1] \o sep) \o join(sep, Tail(texts))

\* The text standing for the skull sign U+1F480.
SKULL == "(skull)"

\* FatalError(*a): a SystemExit whose one argument is the joined message.
FatalError(a) ==
    RaiseExc("FatalError",
             << Str(join(" ", << SKULL >> \o [k \in 1..Len(a) |-> str(a[k])])) >>)

\* killed_by_errors(*errors, unknown_message=...)(func)(): func is the
\* outcome of the wrapped call.
killed_by_errors(errors, unknown_message, func) ==
    IF Returned(func) THEN func
    ELSE IF Except(func, errors) THEN FatalError(func.val)
    ELSE IF Except(func, { "Exception" })
    THEN IF unknown_message # None /\ unknown_message # Str("")
         THEN FatalError(<< unknown_message >>)
         ELSE FatalError(func.val)
    ELSE func

\* ------------------------------------------------------------- exec inputs
ErrorClasses == { "Exception", "LookupError", "KeyError", "ValueError" }

RaisedClasses ==
    ErrorClasses \cup { "KeyboardInterrupt", "SystemExit", "FatalError" }

ExcArgs ==
    { << >>, << Str("a") >>, << Str("a"), Str("b") >>, << Str("a b") >> }

UnknownMessages == { None, Str(""), Str("Unknown error") }

\* What the wrapped function does: it returns, or raises an exception.
FuncOutcomes ==
    { Return(v) : v \in { None, Str("a") } }
    \cup { IF cls = "FatalError" THEN FatalError(a) ELSE RaiseExc(cls, a) :
             cls \in RaisedClasses, a \in ExcArgs }

CallKilledByErrors ==
    /\ Idle
    /\ \E errors \in SUBSET ErrorClasses, unknown_message \in UnknownMessages,
          func \in FuncOutcomes :
        /\ call' = [fn |-> "killed_by_errors", errors |-> errors,
                    unknown_message |-> unknown_message, func |-> func]
        /\ ret' = killed_by_errors(errors, unknown_message, func)
    /\ UNCHANGED utilvars

NextExec == CallKilledByErrors

SpecExec == Init /\ [][NextExec]_vars

\* C15: the wrapper returns the function's result unchanged, lets no
\* Exception escape, turns an instance of one of errors into FatalError with
\* that exception's args, turns any other Exception into FatalError with
\* unknown_message when one is given and with the exception's args otherwise,
\* and lets a FatalError raised inside through unchanged.
C15_KilledByErrors ==
    call.fn = "killed_by_errors" =>
        LET func == call.func
            isException == ~Returned(func) /\ issubclass(func.exc, "Exception")
            listed == /\ isException
                      /\ \E base \in call.errors : issubclass(func.exc, base)
        IN  /\ Returned(func) => ret = func
            /\ ~Returned(ret) => ~issubclass(ret.exc, "Exception")
            /\ listed => ret = FatalError(func.val)
            /\ (isException /\ ~listed) =>
                   ret = IF call.unknown_message # None
                         THEN FatalError(<< call.unknown_message >>)
                         ELSE FatalError(func.val)
            /\ (~Returned(func) /\ func.exc = "FatalError") => ret = func

====
